---- MODULE Spec2Model ----
(***************************************************************************)
(* HealthCareKit: the ESP32 vital monitor, in its two editions.            *)
(*                                                                         *)
(*   "wifi"    src/unnamed/part_001 (lines 249-531): samples every         *)
(*             READ_INTERVAL, POSTs the snapshot every SEND_INTERVAL while *)
(*             wifiConnected, reconnects inline when WiFi.status() is not  *)
(*             WL_CONNECTED.                                               *)
(*   "serial"  src/esp32_vital_monitor/esp32_monitor/esp32_monitor.ino:    *)
(*             samples and writes one JSON line every READ_INTERVAL.       *)
(*                                                                         *)
(* Time is millis(): an unsigned 32-bit millisecond counter.  An unsigned   *)
(* long is held as its two 16-bit halves, [hi, lo], and the arithmetic on  *)
(* it is the 32-bit arithmetic done half by half (the model checker's own  *)
(* integers are 32-bit signed and cannot hold 2^32).  Durations are plain  *)
(* integers.  One step of the model is one whole call of setup() or        *)
(* loop(); the delays the call makes (delay(), the connect polls, the      *)
(* blocking POST) advance the counter inside the step.  Temperatures are   *)
(* in hundredths of a degree.                                              *)
(***************************************************************************)
EXTENDS Integers, Sequences, FiniteSets, TLC

VARIABLES
    variant,        \* "wifi" or "serial": which sketch is flashed
    pc,             \* "setup", "loop" (the sketch); "sample", "publish", "done",
                    \* "up" (the sampler pipeline)
    now,            \* millis()
    lastReadTime,   \* unsigned long lastReadTime
    lastSendTime,   \* unsigned long lastSendTime (wifi edition)
    mlxConnected,   \* bool mlxConnected
    poxConnected,   \* bool poxConnected
    wifiConnected,  \* bool wifiConnected (wifi edition)
    led,            \* level of LED_PIN
    vitals,         \* VitalData vitals
    raw,            \* what the sensors return to the most recent readAllSensors
    present,        \* what mlx.begin() and pox.begin() returned in setup
    prev,           \* readAllSensors calls so far (counted to 2), and the timestamp
                    \* of the snapshot the most recent one overwrote
    fresh,          \* readAllSensors has run since the last publish
    sent,           \* the record published last: <<>> or <<record>>
    failures,       \* consecutive POSTs that returned a failure
    ev,             \* what the most recent loop() call did
    ticks,          \* loop() calls made
    posts           \* POSTs so far (counted to 2), millis() when the latest began
                    \* and when the one before it began

vars == <<variant, pc, now, lastReadTime, lastSendTime, mlxConnected, poxConnected,
          wifiConnected, led, vitals, raw, present, prev, fresh, sent, failures,
          ev, ticks, posts>>

-----------------------------------------------------------------------------
(* Program constants *)

Half == 65536
READ_INTERVAL == 1000
SEND_INTERVAL == 2000
SETUP_DELAY == 1000
LOOP_DELAY == 10
POLL_DELAY == 500
MAX_ATTEMPTS == 20
PULSE_DELAY == 50
HR_MIN == 30
HR_MAX == 200
SPO2_MIN == 70
SPO2_MAX == 100
DIASTOLIC_OFFSET == 40
ADC_MIN == 0
ADC_MAX == 4095
BP_LOW == 80
BP_HIGH == 180
RR_LOW == 8
RR_HIGH == 25

HIGH == TRUE
LOW == FALSE
DEVICE_ID == "ESP32_001"

-----------------------------------------------------------------------------
(* Bounds of the model *)

MaxTicks == 60           \* loop() calls explored, wifi edition
MaxTicksSerial == 1100   \* loop() calls explored, serial edition
MaxDropTick == 2         \* only the first MaxDropTick loop() calls may find the link down
MaxPostTime == 1500      \* longest time http.POST blocks, ms
MaxSerialBoot == 7       \* longest serial setup(), ms
IdleMs == 1              \* time one idle serial loop() call takes, ms
LateLead == 500          \* a late session: the last sample this long before millis() wraps
LateIdle == 950          \* a late session: the time since that sample, ms

\* WiFi.status() during one connectToWiFi(): connected from the upAfter-th
\* poll on (NeverUp: not within the call); holds: still connected at the
\* check that follows the polling loop.
NeverUp == MAX_ATTEMPTS + 1
ConnectOutcomes == [upAfter : {0, MAX_ATTEMPTS, NeverUp}, holds : BOOLEAN]

\* what mlx.begin() and pox.begin() may return
ProbeResults == [mlx : BOOLEAN, pox : BOOLEAN]

\* http.POST: the code it returns and how long it blocks.
HttpCodes == {-1, 0, 200}
PostResponses ==
    {r \in [code : HttpCodes, time : {0, MaxPostTime}] : r.time = 0 \/ r.code < 0}

\* Sensor readings offered to the sketch's loop.
SensorReadings ==
    {[temp |-> 3685, hr |-> 75, spo2 |-> 98, bp |-> 2048, resp |-> 2048,
      loPlus |-> LOW, loMinus |-> LOW, ecg |-> 2048],
     [temp |-> 3712, hr |-> 29, spo2 |-> 101, bp |-> 4095, resp |-> 0,
      loPlus |-> LOW, loMinus |-> HIGH, ecg |-> 1900]}

\* Sensor readings offered to the sampler pipeline.
WideReadings ==
    [temp : {-55, 3685}, hr : {-1, 0, 29, 30, 75, 200, 201, 255},
     spo2 : {0, 69, 70, 98, 100, 101}, bp : {0, 2048, 4095}, resp : {0, 4095},
     loPlus : {LOW, HIGH}, loMinus : {LOW, HIGH}, ecg : {0, 2048}]

-----------------------------------------------------------------------------
(* Arithmetic *)

\* the unsigned long with value n, 0 <= n < 2^31
UL(n) == [hi |-> n \div Half, lo |-> n % Half]

\* t + d on unsigned long, d a duration
Plus(t, d) ==
    LET s == t.lo + d
    IN  [hi |-> (t.hi + s \div Half) % Half, lo |-> s % Half]

\* currentTime - lastTime on unsigned long
Elapsed(currentTime, lastTime) ==
    LET borrow == IF currentTime.lo < lastTime.lo THEN 1 ELSE 0
    IN  [hi |-> (currentTime.hi - lastTime.hi - borrow) % Half,
         lo |-> (currentTime.lo - lastTime.lo) % Half]

\* t >= n on unsigned long, n a duration
AtLeast(t, n) == t.hi > n \div Half \/ (t.hi = n \div Half /\ t.lo >= n % Half)

\* a < b on unsigned long
Before(a, b) == a.hi < b.hi \/ (a.hi = b.hi /\ a.lo < b.lo)

\* C integer division: truncates toward zero
CDiv(a, b) ==
    IF (a >= 0) = (b > 0) THEN a \div b
    ELSE IF b > 0 THEN -((-a) \div b) ELSE -(a \div (-b))

\* Arduino map()
map(x, in_min, in_max, out_min, out_max) ==
    CDiv((x - in_min) * (out_max - out_min), in_max - in_min) + out_min

\* round(t * 10) / 10.0, t in hundredths, the result in tenths
Round1(t) == IF t >= 0 THEN (t + 5) \div 10 ELSE -((5 - t) \div 10)

-----------------------------------------------------------------------------
(* The sampler *)

ZeroVitals ==
    [heartRate |-> 0, bpSystolic |-> 0, bpDiastolic |-> 0, temperature |-> 0,
     oxygenSaturation |-> 0, respiratoryRate |-> 0, ecgValue |-> 0,
     ecgLeadsConnected |-> FALSE, timestamp |-> UL(0)]

readBloodPressure10Bit(rawValue) == map(rawValue, ADC_MIN, 1023, BP_LOW, BP_HIGH)

readBloodPressure(rawValue) == map(rawValue, ADC_MIN, ADC_MAX, BP_LOW, BP_HIGH)

readRespiratoryRateSwapped(rawValue) == map(rawValue, ADC_MIN, ADC_MAX, RR_HIGH, RR_LOW)

readRespiratoryRate(rawValue) == map(rawValue, ADC_MIN, ADC_MAX, RR_LOW, RR_HIGH)

readECGDataAnd(v, loPlus, loMinus, ecg) ==
    IF loPlus = HIGH /\ loMinus = HIGH
    THEN [v EXCEPT !.ecgLeadsConnected = FALSE, !.ecgValue = 0]
    ELSE [v EXCEPT !.ecgLeadsConnected = TRUE, !.ecgValue = ecg]

readECGData(v, loPlus, loMinus, ecg) ==
    IF loPlus = HIGH \/ loMinus = HIGH
    THEN [v EXCEPT !.ecgLeadsConnected = FALSE, !.ecgValue = 0]
    ELSE [v EXCEPT !.ecgLeadsConnected = TRUE, !.ecgValue = ecg]

HeartRateClamped(hr) ==
    IF hr < HR_MIN THEN HR_MIN ELSE IF hr > HR_MAX THEN HR_MAX ELSE hr

\* the junk filter on heartRate
HeartRateFilter(hr) == IF hr < HR_MIN \/ hr > HR_MAX THEN 0 ELSE hr

SpO2FilterOpen(s) == IF s <= SPO2_MIN \/ s >= SPO2_MAX THEN 0 ELSE s

\* the junk filter on oxygenSaturation
SpO2Filter(s) == IF s < SPO2_MIN \/ s > SPO2_MAX THEN 0 ELSE s

DiastolicRatio(systolic) == (systolic * 2) \div 3

\* vitals.bpDiastolic = vitals.bpSystolic - 40
Diastolic(systolic) == systolic - DIASTOLIC_OFFSET

PulseOxUngated(pox, in) ==
    [heartRate |-> HeartRateFilter(in.hr), oxygenSaturation |-> SpO2Filter(in.spo2)]

\* the pulse-oximeter branch of readAllSensors
PulseOx(pox, in) ==
    IF pox
    THEN [heartRate |-> HeartRateFilter(in.hr), oxygenSaturation |-> SpO2Filter(in.spo2)]
    ELSE [heartRate |-> 0, oxygenSaturation |-> 0]

StampKept(v, t) == v

\* vitals.timestamp = millis()
Stamp(v, t) == [v EXCEPT !.timestamp = t]

\* readAllSensors(): v the snapshot it overwrites, in what the sensors
\* return, t millis() when it ends
readAllSensors(v, in, mlx, pox, t) ==
    LET po == PulseOx(pox, in)
        v1 == [v EXCEPT !.temperature = IF mlx THEN in.temp ELSE 0,
                        !.heartRate = po.heartRate,
                        !.oxygenSaturation = po.oxygenSaturation]
        v2 == [v1 EXCEPT !.bpSystolic = readBloodPressure(in.bp)]
        v3 == [v2 EXCEPT !.bpDiastolic = Diastolic(v2.bpSystolic)]
        v4 == [v3 EXCEPT !.respiratoryRate = readRespiratoryRate(in.resp)]
        v5 == readECGData(v4, in.loPlus, in.loMinus, in.ecg)
    IN  Stamp(v5, t)

-----------------------------------------------------------------------------
(* The publisher *)

\* the JSON document of the serial edition
sendVitalData(v, mlx, pox) ==
    [hr |-> v.heartRate, bp_sys |-> v.bpSystolic, bp_dia |-> v.bpDiastolic,
     temp |-> Round1(v.temperature), spo2 |-> v.oxygenSaturation,
     rr |-> v.respiratoryRate, ecg |-> v.ecgValue, ecg_leads |-> v.ecgLeadsConnected,
     timestamp |-> v.timestamp,
     sensors |-> [mlx90614 |-> mlx, max30100 |-> pox]]

\* the JSON document of the wifi edition
JsonDocument(v, mlx, pox) ==
    [hr |-> v.heartRate, bp_sys |-> v.bpSystolic, bp_dia |-> v.bpDiastolic,
     temp |-> Round1(v.temperature), spo2 |-> v.oxygenSaturation,
     rr |-> v.respiratoryRate, ecg |-> v.ecgValue, ecg_leads |-> v.ecgLeadsConnected,
     timestamp |-> v.timestamp, device_id |-> DEVICE_ID,
     sensors |-> [mlx90614 |-> mlx, max30100 |-> pox]]

PostSucceededTruthy(httpResponseCode) == httpResponseCode # 0

\* if (httpResponseCode > 0)
PostSucceeded(httpResponseCode) == httpResponseCode > 0

\* no POST was made
NotSent(wifi, v, led0) ==
    [posted |-> FALSE, doc |-> <<>>, code |-> 0, pulse |-> FALSE,
     led |-> led0, elapsed |-> 0, vitals |-> v, wifiConnected |-> wifi]

sendVitalDataToAPIDark(wifi, v, mlx, pox, resp, led0) ==
    IF ~wifi
    THEN NotSent(wifi, v, led0)
    ELSE LET ok == PostSucceeded(resp.code)
         IN  [posted |-> TRUE, doc |-> <<JsonDocument(v, mlx, pox)>>,
              code |-> resp.code, pulse |-> ok,
              led |-> IF ok THEN LOW ELSE led0,
              elapsed |-> resp.time + (IF ok THEN PULSE_DELAY ELSE 0),
              vitals |-> v, wifiConnected |-> wifi]

sendVitalDataToAPIWipes(wifi, v, mlx, pox, resp, led0) ==
    IF ~wifi
    THEN NotSent(wifi, v, led0)
    ELSE LET ok == PostSucceeded(resp.code)
         IN  [posted |-> TRUE, doc |-> <<JsonDocument(v, mlx, pox)>>,
              code |-> resp.code, pulse |-> ok,
              led |-> IF ok THEN HIGH ELSE led0,
              elapsed |-> resp.time + (IF ok THEN PULSE_DELAY ELSE 0),
              vitals |-> ZeroVitals, wifiConnected |-> ok]

\* sendVitalDataToAPI(): resp what http.POST answers, led0 the LED level on
\* entry; vitals and wifiConnected are the globals as it leaves them (it
\* assigns neither)
sendVitalDataToAPI(wifi, v, mlx, pox, resp, led0) ==
    IF ~wifi
    THEN NotSent(wifi, v, led0)
    ELSE LET ok == PostSucceeded(resp.code)
         IN  [posted |-> TRUE, doc |-> <<JsonDocument(v, mlx, pox)>>,
              code |-> resp.code, pulse |-> ok,
              led |-> IF ok THEN HIGH ELSE led0,
              elapsed |-> resp.time + (IF ok THEN PULSE_DELAY ELSE 0),
              vitals |-> v, wifiConnected |-> wifi]

\* the record published last
Keep(doc, old) == IF doc = <<>> THEN old ELSE doc

-----------------------------------------------------------------------------
(* The link manager *)

\* WiFi.status() == WL_CONNECTED after `attempts` polls of the connect loop
StatusInLoop(conn, attempts) == attempts >= conn.upAfter

\* WiFi.status() == WL_CONNECTED at the check after the connect loop
StatusAfterLoop(conn, attempts) == attempts >= conn.upAfter /\ conn.holds

\* the while loop of connectToWiFi: the value of attempts when it exits
RECURSIVE Poll(_, _)
Poll(conn, attempts) ==
    IF ~StatusInLoop(conn, attempts) /\ attempts < MAX_ATTEMPTS
    THEN Poll(conn, attempts + 1)
    ELSE attempts

connectToWiFiOptimist(conn) ==
    LET attempts == Poll(conn, 0)
    IN  [wifiConnected |-> TRUE, led |-> HIGH,
         attempts |-> attempts, elapsed |-> attempts * POLL_DELAY]

\* connectToWiFi()
connectToWiFi(conn) ==
    LET attempts == Poll(conn, 0)
        up == StatusAfterLoop(conn, attempts)
    IN  [wifiConnected |-> up, led |-> IF up THEN HIGH ELSE LOW,
         attempts |-> attempts, elapsed |-> attempts * POLL_DELAY]

-----------------------------------------------------------------------------
(* The interval gates *)

ReadDueMinute(currentTime, lastTime) ==
    AtLeast(Elapsed(currentTime, lastTime), 60 * READ_INTERVAL)

ReadDueGuarded(currentTime, lastTime) ==
    ~Before(currentTime, lastTime) /\ AtLeast(Elapsed(currentTime, lastTime), READ_INTERVAL)

ReadDueEager(currentTime, lastTime) ==
    AtLeast(Elapsed(currentTime, lastTime), READ_INTERVAL \div 2)

ReadDueSlow(currentTime, lastTime) == AtLeast(Elapsed(currentTime, lastTime), 3 * READ_INTERVAL)

\* currentTime - lastReadTime >= READ_INTERVAL
ReadDue(currentTime, lastTime) == AtLeast(Elapsed(currentTime, lastTime), READ_INTERVAL)

\* wifiConnected && currentTime - lastSendTime >= SEND_INTERVAL
SendDue(wifi, currentTime, lastTime) ==
    wifi /\ AtLeast(Elapsed(currentTime, lastTime), SEND_INTERVAL)

-----------------------------------------------------------------------------
(* Initial states *)

NoPosts == [count |-> 0, start |-> UL(0), before |-> UL(0)]

NoEvent ==
    [currentTime |-> UL(0), wifiBefore |-> FALSE, link |-> "none", attempts |-> 0,
     sampled |-> FALSE, fresh |-> FALSE, posted |-> FALSE, code |-> 0,
     pulse |-> FALSE, blocked |-> 0]

\* the globals as the sketch declares them, before setup()
InitBoot ==
    /\ variant \in {"wifi", "serial"}
    /\ pc = "setup"
    /\ now = UL(0)
    /\ lastReadTime = UL(0)
    /\ lastSendTime = UL(0)
    /\ mlxConnected = FALSE
    /\ poxConnected = FALSE
    /\ wifiConnected = FALSE
    /\ led = LOW
    /\ vitals = ZeroVitals
    /\ raw = CHOOSE in \in SensorReadings : TRUE
    /\ present = [mlx |-> FALSE, pox |-> FALSE]
    /\ prev = [samples |-> 0, timestamp |-> UL(0)]
    /\ fresh = FALSE
    /\ sent = <<>>
    /\ failures = 0
    /\ ev = NoEvent
    /\ ticks = 0
    /\ posts = NoPosts

\* a session that has run for just under 2^32 ms.  The loop() call at t0
\* sampled (the serial edition wrote the record); the wifi edition posted,
\* without success, the sample before, at t0 - READ_INTERVAL; idle loop()
\* calls followed for LateIdle ms.
InitLate ==
    \E in \in SensorReadings, probe \in ProbeResults :
        LET t0 == Elapsed(UL(0), UL(LateLead))
            t1 == Elapsed(t0, UL(READ_INTERVAL))
            mlx == probe.mlx
            pox == probe.pox
            v1 == readAllSensors(ZeroVitals, in, mlx, pox, t1)
            v  == readAllSensors(v1, in, mlx, pox, t0)
            wifi == variant = "wifi"
        IN  /\ variant \in {"wifi", "serial"}
            /\ pc = "loop"
            /\ now = Plus(t0, LateIdle)
            /\ lastReadTime = t0
            /\ lastSendTime = (IF wifi THEN t1 ELSE UL(0))
            /\ mlxConnected = mlx
            /\ poxConnected = pox
            /\ wifiConnected = wifi
            /\ led = wifi
            /\ vitals = v
            /\ raw = in
            /\ present = probe
            /\ prev = [samples |-> 2, timestamp |-> t1]
            /\ fresh = wifi
            /\ sent = (IF wifi THEN <<JsonDocument(v1, mlx, pox)>>
                               ELSE <<sendVitalData(v, mlx, pox)>>)
            /\ failures = (IF wifi THEN 1 ELSE 0)
            /\ ev = [currentTime |-> Elapsed(now, UL(IF wifi THEN LOOP_DELAY ELSE IdleMs)),
                     wifiBefore |-> wifi, link |-> (IF wifi THEN "up" ELSE "none"),
                     attempts |-> 0, sampled |-> FALSE, fresh |-> wifi,
                     posted |-> FALSE, code |-> 0, pulse |-> FALSE, blocked |-> 0]
            /\ ticks = 0
            /\ posts = (IF wifi THEN [count |-> 1, start |-> t1, before |-> UL(0)]
                                ELSE NoPosts)

Init == InitBoot \/ InitLate

-----------------------------------------------------------------------------
(* The wifi edition *)

setup ==
    /\ variant = "wifi"
    /\ pc = "setup"
    /\ \E conn \in ConnectOutcomes, probe \in ProbeResults :
        LET link == connectToWiFi(conn)
        IN  /\ wifiConnected' = link.wifiConnected
            /\ led' = link.led
            /\ mlxConnected' = probe.mlx
            /\ poxConnected' = probe.pox
            /\ present' = probe
            /\ now' = Plus(now, SETUP_DELAY + link.elapsed)
    /\ pc' = "loop"
    /\ UNCHANGED <<variant, lastReadTime, lastSendTime, vitals, raw, prev, fresh,
                   sent, failures, ev, ticks, posts>>

\* one loop() call: status what WiFi.status() == WL_CONNECTED answers at the
\* health check, conn the link during connectToWiFi(), in what the sensors
\* return, resp what http.POST answers
loopBody(status, conn, in, resp) ==
    LET currentTime == now
        link == IF ~status
                THEN connectToWiFi(conn)
                ELSE [wifiConnected |-> wifiConnected, led |-> led,
                      attempts |-> 0, elapsed |-> 0]
        readDue == ReadDue(currentTime, lastReadTime)
        v == IF readDue
             THEN readAllSensors(vitals, in, mlxConnected, poxConnected,
                                 Plus(now, link.elapsed))
             ELSE vitals
        sendDue == SendDue(link.wifiConnected, currentTime, lastSendTime)
        post == IF sendDue
                THEN sendVitalDataToAPI(link.wifiConnected, v, mlxConnected,
                                        poxConnected, resp, link.led)
                ELSE NotSent(link.wifiConnected, v, link.led)
        blocked == link.elapsed + post.elapsed
        postStart == Plus(now, link.elapsed)
    IN  /\ wifiConnected' = post.wifiConnected
        /\ led' = post.led
        /\ vitals' = post.vitals
        /\ posts' = (IF post.posted
                     THEN [count |-> IF posts.count < 2 THEN posts.count + 1 ELSE 2,
                           start |-> postStart, before |-> posts.start]
                     ELSE posts)
        /\ raw' = (IF readDue THEN in ELSE raw)
        /\ prev' = (IF readDue
                    THEN [samples |-> IF prev.samples < 2 THEN prev.samples + 1 ELSE 2,
                          timestamp |-> vitals.timestamp]
                    ELSE prev)
        /\ lastReadTime' = (IF readDue THEN currentTime ELSE lastReadTime)
        /\ lastSendTime' = (IF sendDue THEN currentTime ELSE lastSendTime)
        /\ sent' = Keep(post.doc, sent)
        /\ fresh' = (IF post.posted THEN FALSE ELSE (fresh \/ readDue))
        /\ failures' = (IF ~post.posted THEN failures
                        ELSE IF post.pulse THEN 0 ELSE failures + 1)
        /\ ev' = [currentTime |-> currentTime, wifiBefore |-> wifiConnected,
                  link |-> (IF status THEN "up"
                            ELSE IF StatusAfterLoop(conn, link.attempts)
                                 THEN "reconnected" ELSE "failed"),
                  attempts |-> link.attempts,
                  sampled |-> readDue, fresh |-> (fresh \/ readDue),
                  posted |-> post.posted,
                  code |-> post.code, pulse |-> post.pulse, blocked |-> blocked]
        /\ now' = Plus(now, blocked + LOOP_DELAY)

loop ==
    /\ variant = "wifi"
    /\ pc = "loop"
    /\ ticks < MaxTicks
    /\ \E status \in {TRUE} \cup {x \in {FALSE} : ticks < MaxDropTick} :
       \E conn \in IF status THEN {CHOOSE c \in ConnectOutcomes : TRUE} ELSE ConnectOutcomes :
       \E in \in IF ReadDue(now, lastReadTime) THEN SensorReadings ELSE {raw} :
       \E resp \in IF AtLeast(Elapsed(now, lastSendTime), SEND_INTERVAL)
                    THEN PostResponses ELSE {CHOOSE r \in PostResponses : TRUE} :
           loopBody(status, conn, in, resp)
    /\ ticks' = ticks + 1
    /\ UNCHANGED <<variant, pc, mlxConnected, poxConnected, present>>

-----------------------------------------------------------------------------
(* The serial edition *)

setupSerial ==
    /\ variant = "serial"
    /\ pc = "setup"
    /\ \E boot \in {0, MaxSerialBoot}, probe \in ProbeResults :
        /\ mlxConnected' = probe.mlx
        /\ poxConnected' = probe.pox
        /\ present' = probe
        /\ now' = Plus(now, boot)
    /\ led' = LOW
    /\ pc' = "loop"
    /\ UNCHANGED <<variant, lastReadTime, lastSendTime, wifiConnected, vitals, raw,
                   prev, fresh, sent, failures, ev, ticks, posts>>

loopSerial ==
    /\ variant = "serial"
    /\ pc = "loop"
    /\ ticks < MaxTicksSerial
    /\ \E in \in IF ReadDue(now, lastReadTime) THEN SensorReadings ELSE {raw} :
        LET currentTime == now
            readDue == ReadDue(currentTime, lastReadTime)
            v == readAllSensors(vitals, in, mlxConnected, poxConnected, now)
        IN  IF readDue
            THEN /\ vitals' = v
                 /\ raw' = in
                 /\ prev' = [samples |-> IF prev.samples < 2 THEN prev.samples + 1 ELSE 2,
                             timestamp |-> vitals.timestamp]
                 /\ sent' = Keep(<<sendVitalData(v, mlxConnected, poxConnected)>>, sent)
                 /\ lastReadTime' = currentTime
                 /\ led' = LOW
                 /\ ev' = [currentTime |-> currentTime, wifiBefore |-> FALSE,
                           link |-> "none", attempts |-> 0, sampled |-> TRUE,
                           fresh |-> TRUE, posted |-> TRUE, code |-> 0, pulse |-> FALSE,
                           blocked |-> PULSE_DELAY]
                 /\ now' = Plus(now, PULSE_DELAY)
            ELSE /\ ev' = [currentTime |-> currentTime, wifiBefore |-> FALSE,
                           link |-> "none", attempts |-> 0, sampled |-> FALSE,
                           fresh |-> FALSE, posted |-> FALSE, code |-> 0, pulse |-> FALSE,
                           blocked |-> 0]
                 /\ now' = Plus(now, IdleMs)
                 /\ UNCHANGED <<vitals, raw, prev, sent, lastReadTime, led>>
    /\ ticks' = ticks + 1
    /\ UNCHANGED <<variant, pc, lastSendTime, mlxConnected, poxConnected,
                   wifiConnected, present, fresh, failures, posts>>

Next == setup \/ loop \/ setupSerial \/ loopSerial

Spec == Init /\ [][Next]_vars

\* The environment at its worst: no gated sensor answers the probe, every
\* sample reads implausible values with a lead off, every POST fails; the
\* link is left free to drop and to refuse.
Adverse ==
    /\ present = [mlx |-> FALSE, pox |-> FALSE]
    /\ ev.sampled => (raw.hr < HR_MIN /\ raw.spo2 > SPO2_MAX /\ raw.loMinus = HIGH)
    /\ ev.posted => (variant = "wifi" => ~PostSucceeded(ev.code))

InitAdverse == Init /\ Adverse

NextAdverse == Next /\ Adverse'

\* The Arduino core calls setup() once and then loop() for ever: a call
\* that can be made is made.
SpecFair == InitAdverse /\ [][NextAdverse]_vars /\ WF_vars(NextAdverse)

-----------------------------------------------------------------------------
(* The sampler pipeline: one readAllSensors, then one publish of what it   *)
(* produced, over wide sensor readings and any previous snapshot.          *)

StaleVitals ==
    [heartRate |-> 120, bpSystolic |-> 150, bpDiastolic |-> 110, temperature |-> 3700,
     oxygenSaturation |-> 99, respiratoryRate |-> 20, ecgValue |-> 1234,
     ecgLeadsConnected |-> TRUE, timestamp |-> UL(5000)]

InitSampler ==
    /\ variant \in {"wifi", "serial"}
    /\ pc = "sample"
    /\ now = UL(6000)
    /\ lastReadTime = UL(5000)
    /\ lastSendTime = UL(4000)
    /\ mlxConnected \in BOOLEAN
    /\ poxConnected \in BOOLEAN
    /\ present = [mlx |-> mlxConnected, pox |-> poxConnected]
    /\ wifiConnected = (variant = "wifi")
    /\ led = (variant = "wifi")
    /\ vitals \in {ZeroVitals, StaleVitals}
    /\ raw \in WideReadings
    /\ prev = [samples |-> 0, timestamp |-> UL(0)]
    /\ fresh = FALSE
    /\ sent = <<>>
    /\ failures = 0
    /\ ev = NoEvent
    /\ ticks = 0
    /\ posts = NoPosts

SampleOnce ==
    /\ pc = "sample"
    /\ vitals' = readAllSensors(vitals, raw, mlxConnected, poxConnected, now)
    /\ prev' = [samples |-> 1, timestamp |-> vitals.timestamp]
    /\ fresh' = TRUE
    /\ pc' = "publish"
    /\ UNCHANGED <<variant, now, lastReadTime, lastSendTime, mlxConnected, poxConnected,
                   wifiConnected, led, raw, present, sent, failures, ev, ticks, posts>>

PublishOnce ==
    /\ pc = "publish"
    /\ sent' = (IF variant = "wifi"
                THEN <<JsonDocument(vitals, mlxConnected, poxConnected)>>
                ELSE <<sendVitalData(vitals, mlxConnected, poxConnected)>>)
    /\ fresh' = FALSE
    /\ pc' = "done"
    /\ UNCHANGED <<variant, now, lastReadTime, lastSendTime, mlxConnected, poxConnected,
                   wifiConnected, led, vitals, raw, present, prev, failures, ev,
                   ticks, posts>>

NextSampler == SampleOnce \/ PublishOnce

SpecSampler == InitSampler /\ [][NextSampler]_vars

-----------------------------------------------------------------------------
(* The analog remaps: the sampler pipeline over the whole ADC domain, and  *)
(* one more readAllSensors with one analog input a step higher.            *)

InitRemap ==
    \E adc \in ADC_MIN..ADC_MAX, mirrored \in BOOLEAN :
        /\ variant \in {"wifi", "serial"}
        /\ pc = "sample"
        /\ now = UL(6000)
        /\ lastReadTime = UL(5000)
        /\ lastSendTime = UL(4000)
        /\ mlxConnected = TRUE
        /\ poxConnected = TRUE
        /\ present = [mlx |-> TRUE, pox |-> TRUE]
        /\ wifiConnected = (variant = "wifi")
        /\ led = (variant = "wifi")
        /\ vitals = StaleVitals
        /\ raw = [temp |-> 3685, hr |-> 75, spo2 |-> 98, bp |-> adc,
                  resp |-> (IF mirrored THEN ADC_MAX - adc ELSE adc),
                  loPlus |-> LOW, loMinus |-> LOW, ecg |-> 2048]
        /\ prev = [samples |-> 0, timestamp |-> UL(0)]
        /\ fresh = FALSE
        /\ sent = <<>>
        /\ failures = 0
        /\ ev = NoEvent
        /\ ticks = 0
        /\ posts = NoPosts

SampleUp ==
    /\ pc = "done"
    /\ \E pin \in {"bp", "resp"} :
        /\ raw[pin] < ADC_MAX
        /\ raw' = [raw EXCEPT ![pin] = @ + 1]
    /\ vitals' = readAllSensors(vitals, raw', mlxConnected, poxConnected, now)
    /\ prev' = [samples |-> 2, timestamp |-> vitals.timestamp]
    /\ fresh' = TRUE
    /\ pc' = "up"
    /\ UNCHANGED <<variant, now, lastReadTime, lastSendTime, mlxConnected, poxConnected,
                   wifiConnected, led, present, sent, failures, ev, ticks, posts>>

NextRemap == SampleOnce \/ PublishOnce \/ SampleUp

SpecRemap == InitRemap /\ [][NextRemap]_vars

-----------------------------------------------------------------------------
(* Properties *)

\* the latest loop() call of the wifi edition made a POST
Posted == variant = "wifi" /\ pc = "loop" /\ ev.posted

\* C1: wifi edition: a POST is made only by a loop() call that ends with
\* wifiConnected true; a call whose health check and reconnect both failed
\* makes none, and a call entered with wifiConnected false makes one only
\* after its own connectToWiFi() succeeded.
C1_PublishOnlyWhenConnected ==
    Posted =>
        /\ wifiConnected
        /\ ev.link # "failed"
        /\ (~ev.wifiBefore => ev.link = "reconnected")

\* Connected, the health check failed, the retries were exhausted, and the
\* POST that was due was not made
C1_Witness ==
    /\ variant = "wifi"
    /\ ev.wifiBefore
    /\ ev.link = "failed"
    /\ ev.attempts = 20
    /\ AtLeast(Elapsed(ev.currentTime, lastSendTime), 2000)
    /\ ~ev.posted
    /\ ~wifiConnected

\* readAllSensors has run in the sampler pipeline
Sampled == pc \in {"publish", "done"}

\* C2: a heart-rate reading below 30 or above 200 is stored and published
\* as 0, one in [30,200] as itself; every snapshot's heartRate is 0 or in
\* [30,200], in both editions.
C2_HeartRateFiltered ==
    Sampled =>
        /\ (poxConnected /\ (raw.hr < 30 \/ raw.hr > 200)) => vitals.heartRate = 0
        /\ (poxConnected /\ raw.hr >= 30 /\ raw.hr <= 200) => vitals.heartRate = raw.hr
        /\ vitals.heartRate = 0 \/ vitals.heartRate \in 30..200
        /\ pc = "done" => sent[1].hr = vitals.heartRate

C2_Witness ==
    /\ pc = "done"
    /\ poxConnected
    /\ raw.hr = 201
    /\ vitals.heartRate = 0
    /\ sent[1].hr = 0

\* C3: an oxygen-saturation reading below 70 or above 100 is stored and
\* published as 0 (not clamped), one in [70,100] as itself; every
\* snapshot's oxygenSaturation is 0 or in [70,100].
C3_SpO2Filtered ==
    Sampled =>
        /\ (poxConnected /\ (raw.spo2 < 70 \/ raw.spo2 > 100)) => vitals.oxygenSaturation = 0
        /\ (poxConnected /\ raw.spo2 >= 70 /\ raw.spo2 <= 100)
               => vitals.oxygenSaturation = raw.spo2
        /\ vitals.oxygenSaturation = 0 \/ vitals.oxygenSaturation \in 70..100
        /\ pc = "done" => sent[1].spo2 = vitals.oxygenSaturation

C3_Witness ==
    /\ pc = "done"
    /\ poxConnected
    /\ raw.spo2 = 100
    /\ vitals.oxygenSaturation = 100
    /\ sent[1].spo2 = 100

\* C4: in every snapshot readAllSensors produces, and in the record
\* published from it, the diastolic value is the systolic value minus 40.
C4_DiastolicOffset ==
    Sampled =>
        /\ vitals.bpDiastolic = vitals.bpSystolic - 40
        /\ pc = "done" => /\ sent[1].bp_sys = vitals.bpSystolic
                          /\ sent[1].bp_dia = sent[1].bp_sys - 40

C4_Witness ==
    /\ pc = "done"
    /\ raw.bp = 4095
    /\ sent[1].bp_sys = 180
    /\ sent[1].bp_dia = 140

\* C5: if either lead-off input reads HIGH the snapshot has ecgValue 0 and
\* ecgLeadsConnected false, whatever the analog input and the previous
\* snapshot; ecgLeadsConnected is true exactly when both read LOW, and then
\* ecgValue is the analog reading.
C5_LeadsOff ==
    Sampled =>
        /\ (raw.loPlus = HIGH \/ raw.loMinus = HIGH)
               => (vitals.ecgValue = 0 /\ ~vitals.ecgLeadsConnected)
        /\ vitals.ecgLeadsConnected <=> (raw.loPlus = LOW /\ raw.loMinus = LOW)
        /\ vitals.ecgLeadsConnected => vitals.ecgValue = raw.ecg

\* one lead off, a live analog reading, over a snapshot that had the leads on
C5_Witness ==
    /\ pc = "publish"
    /\ raw.loPlus = HIGH
    /\ raw.loMinus = LOW
    /\ raw.ecg = 2048
    /\ prev.timestamp = UL(5000)
    /\ vitals.ecgValue = 0
    /\ ~vitals.ecgLeadsConnected

\* C6: after setup the capability flags are what the probes returned and
\* stay so; with the pulse-oximeter absent every snapshot and record has
\* hr = 0, spo2 = 0 and sensors.max30100 false, with the temperature sensor
\* absent temperature 0 and sensors.mlx90614 false.
C6_CapabilityFlags ==
    pc = "loop" =>
        /\ mlxConnected = present.mlx
        /\ poxConnected = present.pox
        /\ ~present.pox =>
              /\ vitals.heartRate = 0
              /\ vitals.oxygenSaturation = 0
              /\ sent # <<>> => /\ sent[1].hr = 0
                                /\ sent[1].spo2 = 0
                                /\ ~sent[1].sensors.max30100
        /\ ~present.mlx =>
              /\ vitals.temperature = 0
              /\ sent # <<>> => /\ sent[1].temp = 0
                                /\ ~sent[1].sensors.mlx90614

C6_Witness ==
    /\ Posted
    /\ ev.sampled
    /\ ~present.pox
    /\ raw.hr = 75
    /\ sent[1].hr = 0
    /\ sent[1].spo2 = 0
    /\ ~sent[1].sensors.max30100
    /\ sent[1].sensors.mlx90614
    /\ ticks > 1

\* the latest loop() call of the wifi edition made a POST that failed
PostFailed == Posted /\ ~ev.pulse

\* a failed POST leaves nothing to send again: the record it carried is
\* the current snapshot, and the next POST is a full interval away
NoBacklog ==
    /\ sent = <<JsonDocument(vitals, mlxConnected, poxConnected)>>
    /\ lastSendTime = ev.currentTime

\* C7 as stated: a failed POST (no reconnect in the same call) stretches
\* nothing: when the call ends, less than a read interval and one loop
\* delay has passed since the last sample.
C7_CadenceUnchanged ==
    (PostFailed /\ ev.link = "up") =>
        /\ NoBacklog
        /\ ~AtLeast(Elapsed(now, lastReadTime), READ_INTERVAL + LOOP_DELAY)

\* C7, amended: after a failed POST the loop goes on and nothing is
\* queued; the time since the last sample is less than a read interval and
\* one loop delay plus the time this call spent blocked.
C7_CadenceStretchedByBlocking ==
    PostFailed =>
        /\ NoBacklog
        /\ ~AtLeast(Elapsed(now, lastReadTime), READ_INTERVAL + LOOP_DELAY + ev.blocked)

\* the second failed POST in a row, each blocking for longer than a read interval
C7_Witness ==
    /\ PostFailed
    /\ ev.link = "up"
    /\ failures >= 2
    /\ ev.code < 0
    /\ ev.blocked > READ_INTERVAL
    /\ AtLeast(Elapsed(now, lastReadTime), READ_INTERVAL + LOOP_DELAY)

\* C8: every POST carries the snapshot of the most recent readAllSensors,
\* and at least one readAllSensors has run since the POST before it,
\* whether that one succeeded or failed.
C8_LatestValueWins ==
    Posted =>
        /\ ev.fresh
        /\ sent = <<JsonDocument(vitals, mlxConnected, poxConnected)>>
        /\ vitals = readAllSensors(ZeroVitals, raw, present.mlx, present.pox,
                                   vitals.timestamp)

\* a POST after a failed one, carrying a sample taken by an earlier loop() call
C8_Witness ==
    /\ Posted
    /\ failures = 2
    /\ ~ev.sampled
    /\ ev.fresh
    /\ sent[1].timestamp = vitals.timestamp

\* two readAllSensors have run, one after the other
TwoSnapshots == pc = "loop" /\ prev.samples = 2

\* C9 as stated: the later of two successive snapshots has the greater timestamp.
C9_TimestampIncreases ==
    TwoSnapshots => Before(prev.timestamp, vitals.timestamp)

\* C9, amended: the timestamps of two successive snapshots differ, and the
\* later is ahead of the earlier on the 32-bit counter: their difference
\* mod 2^32 is in 1 .. 2^31 - 1.
C9_TimestampAdvances ==
    TwoSnapshots =>
        LET d == Elapsed(vitals.timestamp, prev.timestamp)
        IN  d # UL(0) /\ d.hi < 32768

\* millis() wrapped between two successive snapshots
C9_Witness ==
    /\ TwoSnapshots
    /\ ev.sampled
    /\ Before(vitals.timestamp, prev.timestamp)
    /\ vitals.timestamp.hi = 0
    /\ prev.timestamp.hi = 65535

\* C10 as stated: a POST counts as sent exactly when the status is not negative.
C10_NonNegativeIsSuccess ==
    Posted => (ev.pulse <=> ev.code >= 0)

\* C10, amended: a POST counts as sent (and the LED is pulsed) exactly
\* when the status is greater than 0.
C10_PositiveIsSuccess ==
    Posted =>
        /\ ev.pulse <=> ev.code > 0
        /\ ev.pulse => led = HIGH

\* a POST that returned 0 and counted as failed
C10_Witness ==
    /\ Posted
    /\ ev.code = 0
    /\ ~ev.pulse
    /\ failures >= 1

\* readAllSensors has run on the analog inputs in raw
Remapped == pc \in {"publish", "done", "up"}

\* C11: a systolic ADC reading of 0 gives bp_sys 80 and bp_dia 40, one of
\* 4095 gives 180 and 140, and every reading in 0..4095 gives
\* 80 + (raw * 100) div 4095, in the snapshot and in the record.
C11_SystolicRemap ==
    /\ Remapped =>
        /\ vitals.bpSystolic = 80 + (raw.bp * 100) \div 4095
        /\ (raw.bp = 0 => vitals.bpSystolic = 80 /\ vitals.bpDiastolic = 40)
        /\ (raw.bp = 4095 => vitals.bpSystolic = 180 /\ vitals.bpDiastolic = 140)
    /\ pc = "done" =>
        /\ sent[1].bp_sys = 80 + (raw.bp * 100) \div 4095
        /\ sent[1].bp_dia = sent[1].bp_sys - 40

\* the record of a reading at the domain maximum
C11_Witness ==
    /\ pc = "done"
    /\ raw.bp = 4095
    /\ sent[1].bp_sys = 180
    /\ sent[1].bp_dia = 140

\* C20: for every analog input in 0..4095 the snapshot has bpSystolic in
\* [80,180], bpDiastolic in [40,140] and respiratoryRate in [8,25], with
\* respiratoryRate = 8 + (raw * 17) div 4095; a reading one step higher
\* never gives a lower bpSystolic or respiratoryRate.
C20_RemapRanges ==
    /\ [](Remapped =>
            /\ vitals.bpSystolic \in 80..180
            /\ vitals.bpDiastolic \in 40..140
            /\ vitals.respiratoryRate \in 8..25
            /\ vitals.respiratoryRate = 8 + (raw.resp * 17) \div 4095)
    /\ [][pc' = "up" =>
            /\ vitals'.bpSystolic >= vitals.bpSystolic
            /\ vitals'.respiratoryRate >= vitals.respiratoryRate]_vars

\* the respiratory input stepped up to the domain maximum, the rate to 25
C20_Witness ==
    /\ pc = "up"
    /\ raw.resp = 4095
    /\ raw.bp < 4095
    /\ vitals.respiratoryRate = 25
    /\ vitals.bpSystolic < 180

\* the serial edition, between two loop() calls
SerialIdle == variant = "serial" /\ pc = "loop"

\* C13: serial edition: the record on the line is always that of the
\* current snapshot; a loop() call writes a record exactly when it samples,
\* and writes that sample; loop() calls that sample begin at least
\* READ_INTERVAL apart, and so do the timestamps of consecutive records.
C13_SerialReadAndSendUnified ==
    /\ [](SerialIdle =>
            /\ sent # <<>> => sent = <<sendVitalData(vitals, mlxConnected, poxConnected)>>
            /\ ev.sampled <=> ev.posted
            /\ ev.sampled => lastReadTime = ev.currentTime
            /\ (ev.sampled /\ prev.samples = 2) =>
                  AtLeast(Elapsed(vitals.timestamp, prev.timestamp), 1000))
    /\ [][(SerialIdle /\ SerialIdle') =>
            /\ (sent' # sent) <=> (vitals' # vitals)
            /\ (sent' # sent) <=> ev'.sampled
            /\ ev'.sampled => AtLeast(Elapsed(lastReadTime', lastReadTime), 1000)]_vars

\* a serial loop() call sampled and wrote the record of that sample, a read
\* interval after the one before
C13_Witness ==
    /\ SerialIdle
    /\ ev.sampled
    /\ ev.posted
    /\ prev.samples = 2
    /\ sent[1].timestamp = vitals.timestamp
    /\ Elapsed(vitals.timestamp, prev.timestamp) = UL(1000)

\* the wifi edition, between two loop() calls
WifiIdle == variant = "wifi" /\ pc = "loop"

\* C14: wifi edition: between loop() calls the LED is HIGH exactly when
\* wifiConnected is true; a POST, sent or failed, leaves it HIGH, and a
\* reconnect that failed leaves it LOW.
C14_LedFollowsLink ==
    WifiIdle =>
        /\ led = HIGH <=> wifiConnected
        /\ ev.posted => led = HIGH
        /\ ev.link = "failed" => led = LOW

\* a POST that failed, the LED still HIGH
C14_Witness ==
    /\ WifiIdle
    /\ ev.posted
    /\ ev.code < 0
    /\ ~ev.pulse
    /\ led = HIGH
    /\ wifiConnected

\* the latest loop() call of the wifi edition called connectToWiFi
Reconnected == WifiIdle /\ ev.link \in {"reconnected", "failed"}

\* C15: connectToWiFi returns after at most 20 polls of 500 ms each, with
\* wifiConnected true exactly when WiFi.status() was WL_CONNECTED at the
\* check after the polls.
C15_ConnectBounded ==
    Reconnected =>
        /\ ev.attempts \in 0..20
        /\ ev.blocked >= ev.attempts * 500
        /\ ~ev.posted => ev.blocked = ev.attempts * 500
        /\ wifiConnected <=> ev.link = "reconnected"
        /\ ev.link = "failed" => ~ev.posted

\* the link answered connected at the last poll and not at the check after
\* it: 20 polls, 10 s, and wifiConnected false
C15_Witness ==
    /\ Reconnected
    /\ ev.link = "failed"
    /\ ev.wifiBefore
    /\ ev.attempts = 20
    /\ ev.blocked = 10000
    /\ ~wifiConnected

\* C16: a loop() call whose health check is negative calls connectToWiFi
\* before it decides on the POST and takes wifiConnected from it; and once
\* the link answers connected at every health check, wifiConnected becomes
\* true: it is true at the end of the session explored, where the link has
\* answered connected since loop() call MaxDropTick.
C16_SelfHealing ==
    /\ Reconnected =>
          /\ wifiConnected <=> ev.link = "reconnected"
          /\ ev.posted => ev.link = "reconnected"
    /\ (WifiIdle /\ ticks = MaxTicks /\ ev.link = "up") => wifiConnected

\* C17: two consecutive POSTs of the wifi edition begin at least
\* SEND_INTERVAL apart.
C17_PostsSendIntervalApart ==
    (WifiIdle /\ posts.count = 2) =>
        AtLeast(Elapsed(posts.start, posts.before), 2000)

\* C18: the timestamps of two consecutive snapshots of the wifi edition
\* are at least READ_INTERVAL apart.
C18_SamplesReadIntervalApart ==
    (WifiIdle /\ TwoSnapshots) =>
        AtLeast(Elapsed(vitals.timestamp, prev.timestamp), 1000)

\* C19: a publish, sent or failed, leaves the snapshot as it was written
\* to the record, wifiConnected true as the publish found it, and
\* lastReadTime at the time of the latest sample; no loop() call changes a
\* capability flag, one that does not sample changes neither the snapshot
\* nor lastReadTime, and one that does not call connectToWiFi leaves
\* wifiConnected alone.
C19_PublishFrame ==
    /\ []((WifiIdle /\ ev.posted) =>
            /\ sent = <<JsonDocument(vitals, mlxConnected, poxConnected)>>
            /\ wifiConnected
            /\ ev.sampled => lastReadTime = ev.currentTime)
    /\ []((SerialIdle /\ ev.posted) =>
            /\ sent = <<sendVitalData(vitals, mlxConnected, poxConnected)>>
            /\ lastReadTime = ev.currentTime)
    /\ [][(pc = "loop" /\ pc' = "loop") =>
            /\ mlxConnected' = mlxConnected
            /\ poxConnected' = poxConnected
            /\ ~ev'.sampled => (vitals' = vitals /\ lastReadTime' = lastReadTime)
            /\ ev'.link \in {"up", "none"} => wifiConnected' = wifiConnected]_vars

\* a POST that was sent, by a loop() call that had sampled: the snapshot is
\* the one in the record
C19_Witness ==
    /\ WifiIdle
    /\ ev.posted
    /\ ev.pulse
    /\ ev.code = 200
    /\ ev.sampled
    /\ sent[1].timestamp = vitals.timestamp
    /\ sent[1].hr = vitals.heartRate
    /\ lastReadTime = ev.currentTime

\* the loop() calls left to explore, and the time one takes at least
TicksLeft == IF variant = "wifi" THEN MaxTicks - ticks ELSE MaxTicksSerial - ticks
TickTime == IF variant = "wifi" THEN LOOP_DELAY ELSE IdleMs

\* between two loop() calls, the latest of which did not sample, with
\* enough calls left to explore for the read interval to run out before
\* the last of them
SampleInReach ==
    /\ pc = "loop"
    /\ ~ev.sampled
    /\ TicksLeft >= 1
    /\ AtLeast(Plus(Elapsed(now, lastReadTime), (TicksLeft - 1) * TickTime), 1000)

\* C12: nothing stops the loop: setup() returns, and from every point
\* between two loop() calls a later call runs readAllSensors, whatever the
\* sensors, the link and the POSTs do.
C12_SamplingNeverStops ==
    /\ (pc = "setup") ~> (pc = "loop")
    /\ SampleInReach ~> (pc = "loop" /\ ev.sampled)

\* no gated sensor, the link lost and the reconnect failed in this loop()
\* call and in the one before, and the call sampled all the same
C12_Witness ==
    /\ WifiIdle
    /\ ~mlxConnected
    /\ ~poxConnected
    /\ ~wifiConnected
    /\ ~ev.wifiBefore
    /\ ev.link = "failed"
    /\ ev.sampled
    /\ prev.samples = 2

\* C21: no record is published from the zero-initialised snapshot: when a
\* record has been published readAllSensors has run, and the record has
\* bp_sys in [80,180], bp_dia = bp_sys - 40 and rr in [8,25], in both
\* editions.
C21_NoZeroSnapshotPublished ==
    (pc = "loop" /\ (ev.posted \/ sent # <<>>)) =>
        /\ prev.samples >= 1
        /\ sent # <<>>
        /\ sent[1].bp_sys \in 80..180
        /\ sent[1].bp_dia = sent[1].bp_sys - 40
        /\ sent[1].rr \in 8..25
        /\ sent[1].timestamp # ZeroVitals.timestamp

\* the first POST of a session, made by the loop() call that took the
\* first sample, after a setup() that polled the link 20 times
C21_Witness ==
    /\ WifiIdle
    /\ ev.posted
    /\ ev.sampled
    /\ posts.count = 1
    /\ prev.samples = 1
    /\ ticks = 1
    /\ sent[1].bp_sys >= 80
    /\ sent[1].timestamp = vitals.timestamp

\* a loop() call has been made, or a sample taken
Running == pc = "loop" /\ (ticks >= 1 \/ prev.samples >= 1)

\* C22: the gates hold across the wrap of millis() as anywhere else.
\* Between loop() calls the time since the last sampling call, mod 2^32,
\* is less than READ_INTERVAL plus the time the latest call took, and
\* while wifiConnected the time since the last POST's call less than
\* SEND_INTERVAL plus that; two sampling calls begin at least
\* READ_INTERVAL apart and two posting calls at least SEND_INTERVAL.
C22_GatesWrapSafe ==
    /\ [](Running =>
            /\ ~AtLeast(Elapsed(now, lastReadTime), 1000 + TickTime + ev.blocked)
            /\ (variant = "wifi" /\ wifiConnected) =>
                  ~AtLeast(Elapsed(now, lastSendTime), 2000 + TickTime + ev.blocked))
    /\ [][(pc = "loop" /\ pc' = "loop") =>
            /\ ev'.sampled => AtLeast(Elapsed(lastReadTime', lastReadTime), 1000)
            /\ (variant = "wifi" /\ ev'.posted) =>
                  AtLeast(Elapsed(lastSendTime', lastSendTime), 2000)]_vars

\* millis() wrapped since the last sample, and the loop() call that began
\* READ_INTERVAL after that sample took the next one
C22_Witness ==
    /\ pc = "loop"
    /\ ev.sampled
    /\ lastReadTime = ev.currentTime
    /\ lastReadTime.hi = 0
    /\ prev.timestamp.hi = 65535
    /\ Elapsed(lastReadTime, prev.timestamp) = UL(1000)
    /\ (variant = "wifi" => ev.posted)

====
